---- MODULE Spec2Model ----
(***************************************************************************)
(* A model of the olmocr research tooling:                                 *)
(*   - pdelfin/eval/runeval.py : normalize_json_entry, load_gold_data,     *)
(*     list_jsonl_files, process_jsonl_file, do_eval                       *)
(*   - olmocr/bench/viewer2.py : parse_rules_file, generate_html and the   *)
(*     JavaScript embedded in the generated page                          *)
(*   - pdelfin/train (dataprep, as exercised by tests/test_dataprep.py)    *)
(* Each component is an independent command-line script, so each has its   *)
(* own specification; the variables of the other components stay idle.     *)
(***************************************************************************)
EXTENDS Integers, Sequences, FiniteSets, TLC

VARIABLES
    \* --- normalize_json_entry applied to one record
    n_data,        \* the json record handed to normalize_json_entry
    n_result,      \* what the call produced: an entry or a raised exception
    n_pc,          \* "idle" | "input" | "returned" | "raised"
    \* --- do_eval
    e_gold_path,      \* the gold directory: a sequence of files
    e_eval_path,      \* the eval directory: a sequence of files
    e_review_size,    \* review_page_size
    e_pc,             \* where do_eval is
    e_exc,            \* the exception do_eval raised, "none" otherwise
    e_gold_data,      \* gold_data: goldkey -> gold text
    e_jsonl_files,    \* jsonl_files as listed
    e_futures,        \* per submitted file: "pending" | "done"
    e_total_alignment_score,
    e_total_weight,
    e_total_pages_compared,
    e_page_eval_data,
    e_sample_idx,     \* the positions random.sample drew, in drawing order
    e_worst_html,     \* pages written to <name>_worst.html
    e_sample_html,    \* pages written to <name>_sample.html
    e_result,         \* what do_eval returned
    \* --- viewer2.py: parse_rules_file and generate_html
    v_lines,          \* the lines of the rules file
    v_pdfs_arg,       \* args.pdfs: given or not, and the names
    v_fail,           \* the PDFs on which run_chatgpt / run_gemini raise
    v_pos,            \* lines parse_rules_file has read
    v_pdf_rules,      \* pdf_rules: the keys in insertion order, with their rule counts
    v_pdf_names,      \* pdf_names, the selection of generate_html
    v_html,           \* the pdf-containers appended to html, in order
    v_pc,             \* "idle" | "parse" | "render" | "done" | "raised"
    \* --- the generated page in a browser (the script embedded by generate_html)
    p_page,           \* the PDF names whose containers the open page holds
    p_ratings,        \* const ratings: its properties in insertion order
    p_indicator,      \* per element id: textContent and className of rating-<id>
    p_storage,        \* localStorage['pdf-model-ratings']: null or the JSON text
    p_display,        \* per element id: style.display of diff-<id>
    p_content,        \* per element id: the content of diff-<id>
    p_pc,             \* "idle" | "loading" (onload pending) | "ready"
    p_given,          \* per element id: the last rating the user gave, None if none
    p_calls,          \* per element id: the calls of toggleDifference since the load
    \* --- the training dataset of make_dataset (pdelfin/train)
    d_target,         \* target_anchor_text_len of the source: an int or a list
    d_index,          \* the index last accessed, 0 before any access
    d_entry,          \* the training example the last access produced
    d_seen,           \* per index: the RAW_TEXT blocks its accesses have shown
    d_pc              \* "idle" | "ready"

normVars == <<n_data, n_result, n_pc>>

evalVars ==
    <<e_gold_path, e_eval_path, e_review_size, e_pc, e_exc, e_gold_data,
      e_jsonl_files, e_futures, e_total_alignment_score, e_total_weight,
      e_total_pages_compared, e_page_eval_data, e_sample_idx, e_worst_html,
      e_sample_html, e_result>>

viewVars ==
    <<v_lines, v_pdfs_arg, v_fail, v_pos, v_pdf_rules, v_pdf_names, v_html, v_pc>>

pageVars ==
    <<p_page, p_ratings, p_indicator, p_storage, p_display, p_content, p_pc,
      p_given, p_calls>>

prepVars == <<d_target, d_index, d_entry, d_seen, d_pc>>

vars == <<normVars, evalVars, viewVars, pageVars, prepVars>>

\* What the actions of one script leave alone: the other scripts' variables.
notNorm == <<evalVars, viewVars, pageVars, prepVars>>
notEval == <<normVars, viewVars, pageVars, prepVars>>
notView == <<normVars, evalVars, pageVars, prepVars>>
notPage == <<normVars, evalVars, viewVars, prepVars>>
notPrep == <<normVars, evalVars, viewVars, pageVars>>

(***************************************************************************)
(* Python values.  None is a value distinct from every string the model    *)
(* draws texts from.                                                       *)
(***************************************************************************)
None == "<None>"

\* Bound: longest custom_id, in characters.
MaxIdLen == 4

\* Characters a custom_id is made of: a path letter, the hyphen, two digits.
IdChars == {"a", "-", "0", "1"}

Digits == {"0", "1", "2", "3", "4", "5", "6", "7", "8", "9"}

DigitVal(c) ==
    CASE c = "0" -> 0 [] c = "1" -> 1 [] c = "2" -> 2 [] c = "3" -> 3
      [] c = "4" -> 4 [] c = "5" -> 5 [] c = "6" -> 6 [] c = "7" -> 7
      [] c = "8" -> 8 [] c = "9" -> 9

DigitChar(d) ==
    CASE d = 0 -> "0" [] d = 1 -> "1" [] d = 2 -> "2" [] d = 3 -> "3"
      [] d = 4 -> "4" [] d = 5 -> "5" [] d = 6 -> "6" [] d = 7 -> "7"
      [] d = 8 -> "8" [] d = 9 -> "9"

\* str.rindex("-"): the index of the last hyphen, 0 when there is none
\* (Python raises ValueError there).
RIndexHyphen(s) ==
    LET hy == {i \in 1..Len(s) : s[i] = "-"}
    IN  IF hy = {} THEN 0 ELSE CHOOSE i \in hy : \A j \in hy : j <= i

\* int(s) for a string of the model's characters: defined on a non-empty run
\* of decimal digits (leading zeros accepted), ValueError otherwise.
IntParsable(s) == Len(s) > 0 /\ \A i \in 1..Len(s) : s[i] \in Digits

RECURSIVE IntValue(_)
IntValue(s) ==
    IF Len(s) = 0 THEN 0
    ELSE 10 * IntValue(SubSeq(s, 1, Len(s) - 1)) + DigitVal(s[Len(s)])

\* str(n) of a non-negative int: its canonical decimal digits.
RECURSIVE IntStr(_)
IntStr(n) ==
    IF n < 10 THEN <<DigitChar(n)>>
    ELSE IntStr(n \div 10) \o <<DigitChar(n % 10)>>

(***************************************************************************)
(* NormalizedEntry and the outcome of a call: exc = "none" and the entry,  *)
(* or the exception that propagated out of it.                             *)
(***************************************************************************)
NoEntry ==
    [s3_path |-> <<>>, pagenum |-> -1, text |-> None,
     finish_reason |-> None, error |-> None]

Returned(e) == [exc |-> "none", entry |-> e]
Raised(x) == [exc |-> x, entry |-> NoEntry]

\* NormalizedEntry.from_goldkey
from_goldkey_wrongsplit(goldkey, text, finish_reason, error) ==
    LET hy == {i \in 1..Len(goldkey) : goldkey[i] = "-"}
        k == IF hy = {} THEN 0 ELSE CHOOSE i \in hy : \A j \in hy : i <= j
    IN  IF k = 0 THEN Raised("ValueError")
        ELSE IF ~IntParsable(SubSeq(goldkey, k + 1, Len(goldkey)))
             THEN Raised("ValueError")
        ELSE Returned([s3_path |-> SubSeq(goldkey, 1, k - 1),
                       pagenum |-> IntValue(SubSeq(goldkey, k + 1, Len(goldkey))),
                       text |-> text, finish_reason |-> finish_reason,
                       error |-> error])

from_goldkey(goldkey, text, finish_reason, error) ==
    LET k == RIndexHyphen(goldkey)
    IN  IF k = 0 THEN Raised("ValueError")
        ELSE IF ~IntParsable(SubSeq(goldkey, k + 1, Len(goldkey)))
             THEN Raised("ValueError")
        ELSE Returned([s3_path |-> SubSeq(goldkey, 1, k - 1),
                       pagenum |-> IntValue(SubSeq(goldkey, k + 1, Len(goldkey))),
                       text |-> text, finish_reason |-> finish_reason,
                       error |-> error])

\* NormalizedEntry.goldkey
goldkey(e) == e.s3_path \o <<"-">> \o IntStr(e.pagenum)

(***************************************************************************)
(* json.loads on the model's content strings.  The strings are concrete;   *)
(* each is classified as Python's parser classifies it: not JSON at all    *)
(* (JSONDecodeError), a JSON object with or without the natural_text key,  *)
(* or a JSON value of another type.                                        *)
(***************************************************************************)
StructuredText == "{\"natural_text\": \"abcd\"}"
StructuredNull == "{\"natural_text\": null}"
ObjectOther == "{\"primary_language\": \"en\"}"
JsonNumber == "42"
JsonString == "\"ab\""
PlainText == "abcd ab"
EmptyText == ""

Contents ==
    {StructuredText, StructuredNull, ObjectOther, JsonNumber, JsonString,
     PlainText, EmptyText}

json_loads(s) ==
    CASE s = StructuredText ->
            [decoded |-> TRUE, type |-> "dict", has_nt |-> TRUE, natural_text |-> "abcd"]
      [] s = StructuredNull ->
            [decoded |-> TRUE, type |-> "dict", has_nt |-> TRUE, natural_text |-> None]
      [] s = ObjectOther ->
            [decoded |-> TRUE, type |-> "dict", has_nt |-> FALSE, natural_text |-> None]
      [] s = JsonNumber ->
            [decoded |-> TRUE, type |-> "int", has_nt |-> FALSE, natural_text |-> None]
      [] s = JsonString ->
            [decoded |-> TRUE, type |-> "str", has_nt |-> FALSE, natural_text |-> None]
      [] OTHER ->
            [decoded |-> FALSE, type |-> "none", has_nt |-> FALSE, natural_text |-> None]

\* parsed_content["natural_text"]: the exception it raises, "none" when it
\* yields a value (a dict with the key).
SubscriptExc(parsed) ==
    IF parsed.type # "dict" THEN "TypeError"
    ELSE IF ~parsed.has_nt THEN "KeyError"
    ELSE "none"

(***************************************************************************)
(* A json record.  fmt = "birr" when the record has an "outputs" key:      *)
(* outputs_null says the value is null, otherwise text and finish_reason   *)
(* are those of outputs[0]; completion_error is None when the key is       *)
(* absent.  fmt = "openai": text and finish_reason are those of            *)
(* response.body.choices[0].                                               *)
(***************************************************************************)
normalize_json_entry_rawtext(data) ==
    from_goldkey(data.custom_id,
                 IF data.fmt = "birr" /\ data.outputs_null THEN None ELSE data.text,
                 IF data.fmt = "birr" /\ data.outputs_null THEN None
                 ELSE data.finish_reason,
                 IF data.fmt = "birr" THEN data.completion_error ELSE None)

normalize_json_entry(data) ==
    IF data.fmt = "birr" THEN
        LET text0 == IF data.outputs_null THEN None ELSE data.text
            finish_reason == IF data.outputs_null THEN None ELSE data.finish_reason
            parsed == json_loads(text0)
        IN  IF text0 # None /\ parsed.decoded /\ SubscriptExc(parsed) # "none"
            THEN Raised(SubscriptExc(parsed))
            ELSE from_goldkey(data.custom_id,
                              IF text0 # None /\ parsed.decoded
                              THEN parsed.natural_text ELSE text0,
                              finish_reason,
                              data.completion_error)
    ELSE
        LET parsed == json_loads(data.text)
        IN  IF ~parsed.decoded
            THEN from_goldkey(data.custom_id, data.text, data.finish_reason, None)
            ELSE IF SubscriptExc(parsed) # "none"
            THEN Raised(SubscriptExc(parsed))
            ELSE from_goldkey(data.custom_id, parsed.natural_text,
                              data.finish_reason, None)

RECURSIVE SeqsUpTo(_, _)
SeqsUpTo(S, n) ==
    IF n = 0 THEN {<<>>}
    ELSE LET shorter == SeqsUpTo(S, n - 1)
         IN  shorter \cup {Append(s, c) : s \in {t \in shorter : Len(t) = n - 1}, c \in S}

CustomIds == SeqsUpTo(IdChars, MaxIdLen) \ {<<>>}

FinishReasons == {"stop", "length"}

BirrRecords ==
    [fmt : {"birr"}, custom_id : CustomIds, outputs_null : {FALSE},
     text : Contents, finish_reason : FinishReasons,
     completion_error : {None, "timeout"}]
    \cup
    [fmt : {"birr"}, custom_id : CustomIds, outputs_null : {TRUE},
     text : {None}, finish_reason : {None},
     completion_error : {None, "timeout"}]

OpenAIRecords ==
    [fmt : {"openai"}, custom_id : CustomIds, outputs_null : {FALSE},
     text : Contents, finish_reason : FinishReasons,
     completion_error : {None}]

NoData ==
    [fmt |-> "none", custom_id |-> <<>>, outputs_null |-> FALSE, text |-> None,
     finish_reason |-> None, completion_error |-> None]

NormIdle == n_data = NoData /\ n_result = Raised("none") /\ n_pc = "idle"

NormInit ==
    /\ n_data \in BirrRecords \cup OpenAIRecords
    /\ n_result = Raised("none")
    /\ n_pc = "input"

\* One call normalize_json_entry(n_data).
Normalize ==
    /\ n_pc = "input"
    /\ n_result' = normalize_json_entry(n_data)
    /\ n_pc' = IF n_result'.exc = "none" THEN "returned" ELSE "raised"
    /\ UNCHANGED n_data
    /\ UNCHANGED notNorm


(***************************************************************************)
(* do_eval (pdelfin/eval/runeval.py).                                      *)
(***************************************************************************)

\* Bounds of the eval corpus and of review_page_size.
MaxFiles == 2
MaxRecords == 2
MaxReview == 2
\* Resolution of the alignment score: comparer.compute yields a value in
\* [0, 1], modelled as k / AlignUnit.
AlignUnit == 4

Min2(a, b) == IF a < b THEN a ELSE b
Max2(a, b) == IF a < b THEN b ELSE a

\* text or ""
OrEmpty(t) == IF t = None THEN "" ELSE t

\* comparer.compute(gold_text, eval_text): DocumentEditSimilarity of an
\* external library, a pure function of the two texts with values in [0, 1].
\* Stand-in: 1 on equal texts, otherwise the length ratio, in AlignUnit-ths.
compute(gold_text, eval_text) ==
    IF gold_text = eval_text THEN AlignUnit
    ELSE (AlignUnit * Min2(Len(gold_text), Len(eval_text)))
            \div Max2(Max2(Len(gold_text), Len(eval_text)), 1)

valid_endings == {".json", ".jsonl", ".json.zstd", ".jsonl.zstd"}

\* list_jsonl_files: the files of the directory whose name has a valid ending.
list_jsonl_files(path) == SelectSeq(path, LAMBDA f : f.ending \in valid_endings)

\* A dict as a function; d[k] = v.
DictSet(d, k, v) == [x \in DOMAIN d \cup {k} |-> IF x = k THEN v ELSE d[x]]

EmptyDict == [x \in {} |-> None]

\* load_gold_data: every line of every gold file normalized, last entry of
\* a key wins.  acc = [exc, gold_data].
RECURSIVE LoadLines(_, _)
LoadLines(lines, acc) ==
    IF lines = <<>> \/ acc.exc # "none" THEN acc
    ELSE LET r == normalize_json_entry(Head(lines))
         IN  IF r.exc # "none"
             THEN [exc |-> r.exc, gold_data |-> acc.gold_data]
             ELSE LoadLines(Tail(lines),
                    [exc |-> "none",
                     gold_data |-> DictSet(acc.gold_data, goldkey(r.entry),
                                           r.entry.text)])

RECURSIVE LoadFiles(_, _)
LoadFiles(files, acc) ==
    IF files = <<>> \/ acc.exc # "none" THEN acc
    ELSE LoadFiles(Tail(files), LoadLines(Head(files).lines, acc))

load_gold_data(gold_data_path) ==
    LoadFiles(list_jsonl_files(gold_data_path),
              [exc |-> "none", gold_data |-> EmptyDict])

\* page_data[key] = pd on a dict that keeps insertion order: an existing key
\* keeps its place and takes the new value.
PageDataSet(page_data, key, pd) ==
    IF \E i \in 1..Len(page_data) : page_data[i].key = key
    THEN [i \in 1..Len(page_data) |->
            IF page_data[i].key = key THEN [key |-> key, pd |-> pd]
            ELSE page_data[i]]
    ELSE Append(page_data, [key |-> key, pd |-> pd])

NoWork ==
    [exc |-> "none", total_alignment_score |-> 0,
     char_weighted_alignment_score |-> 0, total_chars |-> 0,
     total_pages |-> 0, page_data |-> <<>>]

\* One iteration of the loop of process_jsonl_file over a normalized line.
ProcessLine_SkipsNothing(acc, data, gold_data) ==
    LET key == goldkey(data)
        gold_text == IF key \in DOMAIN gold_data THEN OrEmpty(gold_data[key]) ELSE ""
        eval_text == OrEmpty(data.text)
        alignment == compute(gold_text, eval_text)
    IN  [exc |-> "none",
         total_alignment_score |-> acc.total_alignment_score + alignment,
         char_weighted_alignment_score |->
            acc.char_weighted_alignment_score + alignment * Len(gold_text),
         total_chars |-> acc.total_chars + Len(gold_text),
         total_pages |-> acc.total_pages + 1,
         page_data |-> PageDataSet(acc.page_data, key,
            [s3_path |-> data.s3_path, page |-> data.pagenum,
             gold_text |-> gold_text, eval_text |-> eval_text,
             alignment |-> alignment])]

ProcessLine(acc, data, gold_data) ==
    LET key == goldkey(data)
    IN  IF key \notin DOMAIN gold_data THEN acc
        ELSE LET gold_text == OrEmpty(gold_data[key])
                 eval_text == OrEmpty(data.text)
                 alignment == compute(gold_text, eval_text)
             IN  [exc |-> "none",
                  total_alignment_score |-> acc.total_alignment_score + alignment,
                  char_weighted_alignment_score |->
                     acc.char_weighted_alignment_score + alignment * Len(gold_text),
                  total_chars |-> acc.total_chars + Len(gold_text),
                  total_pages |-> acc.total_pages + 1,
                  page_data |-> PageDataSet(acc.page_data, key,
                     [s3_path |-> data.s3_path, page |-> data.pagenum,
                      gold_text |-> gold_text, eval_text |-> eval_text,
                      alignment |-> alignment])]

RECURSIVE ProcessLines(_, _, _)
ProcessLines(lines, gold_data, acc) ==
    IF lines = <<>> THEN acc
    ELSE LET r == normalize_json_entry(Head(lines))
         IN  IF r.exc # "none" THEN [acc EXCEPT !.exc = r.exc]
             ELSE ProcessLines(Tail(lines), gold_data,
                               ProcessLine(acc, r.entry, gold_data))

\* process_jsonl_file(jsonl_file, gold_data, comparer)
process_jsonl_file(jsonl_file, gold_data) ==
    ProcessLines(jsonl_file.lines, gold_data, NoWork)


\* page_eval_data.sort(key=lambda x: x["alignment"]): a stable sort.
RECURSIVE InsertByAlignment(_, _)
InsertByAlignment(sorted, pd) ==
    IF sorted = <<>> THEN <<pd>>
    ELSE IF pd.alignment < sorted[Len(sorted)].alignment
         THEN Append(InsertByAlignment(SubSeq(sorted, 1, Len(sorted) - 1), pd),
                     sorted[Len(sorted)])
         ELSE Append(sorted, pd)

RECURSIVE SortByAlignment(_)
SortByAlignment(pages) ==
    IF pages = <<>> THEN <<>>
    ELSE InsertByAlignment(SortByAlignment(SubSeq(pages, 1, Len(pages) - 1)),
                           pages[Len(pages)])

\* page_eval_data[:review_page_size] for review_page_size >= 0
Prefix(pages, k) == SubSeq(pages, 1, Min2(k, Len(pages)))

\* random.sample(population, k), n = len(population): the sequences of
\* positions it may draw, k distinct positions in any order; none when
\* k > n (ValueError).
random_choices(n, k) == [1..k -> 1..n]

random_sample(n, k) ==
    IF k > n THEN {}
    ELSE {idx \in [1..k -> 1..n] : \A i, j \in 1..k : i # j => idx[i] # idx[j]}

\* "if not jsonl_files"
no_files_never(jsonl_files) == FALSE

no_files(jsonl_files) == jsonl_files = <<>>

NoResult == [score |-> [num |-> 0, den |-> 0], pages |-> <<>>]

\* The eval records the corpora are made of.
KeyA == <<"a", "-", "0">>
KeyB == <<"a", "-", "1">>
KeyAbsent == <<"a", "-", "1", "0">>

OpenAI(id, content) ==
    [fmt |-> "openai", custom_id |-> id, outputs_null |-> FALSE,
     text |-> content, finish_reason |-> "stop", completion_error |-> None]

Birr(id, content) ==
    [fmt |-> "birr", custom_id |-> id, outputs_null |-> FALSE,
     text |-> content, finish_reason |-> "stop", completion_error |-> None]

BirrNull(id) ==
    [fmt |-> "birr", custom_id |-> id, outputs_null |-> TRUE,
     text |-> None, finish_reason |-> None, completion_error |-> "timeout"]

EvalRecords ==
    {OpenAI(KeyA, StructuredText), Birr(KeyA, PlainText), BirrNull(KeyB),
     OpenAI(KeyAbsent, PlainText), OpenAI(KeyB, JsonNumber)}

JsonlFile(lines) == [ending |-> ".jsonl", lines |-> lines]
OtherFile == [ending |-> ".txt", lines |-> <<>>]

\* The directories of at most nf .jsonl files holding at most nl lines.
RECURSIVE Corpora(_, _)
Corpora(nf, nl) ==
    IF nf = 0 THEN {<<>>}
    ELSE {<<>>} \cup
         UNION {{<<JsonlFile(lines)>> \o rest :
                    rest \in Corpora(nf - 1, nl - Len(lines))} :
                lines \in SeqsUpTo(EvalRecords, nl)}

EvalPaths ==
    LET c == Corpora(MaxFiles, MaxRecords)
    IN  c \cup {<<OtherFile>> \o d : d \in c}

GoldPaths ==
    {<< JsonlFile(<<OpenAI(KeyA, StructuredText), BirrNull(KeyB)>>) >>,
     << JsonlFile(<<Birr(KeyA, PlainText)>>), OtherFile,
        JsonlFile(<<OpenAI(KeyA, StructuredText)>>) >>}

EvalIdle ==
    /\ e_gold_path = <<>> /\ e_eval_path = <<>> /\ e_review_size = 0
    /\ e_pc = "idle" /\ e_exc = "none" /\ e_gold_data = EmptyDict
    /\ e_jsonl_files = <<>> /\ e_futures = <<>>
    /\ e_total_alignment_score = 0 /\ e_total_weight = 0
    /\ e_total_pages_compared = {} /\ e_page_eval_data = <<>>
    /\ e_sample_idx = <<>> /\ e_worst_html = None /\ e_sample_html = None
    /\ e_result = NoResult

\* do_eval is entered with its arguments; nothing is computed yet.
EvalInit ==
    /\ e_gold_path \in GoldPaths
    /\ e_eval_path \in EvalPaths
    /\ e_review_size \in 0..MaxReview
    /\ e_pc = "start" /\ e_exc = "none" /\ e_gold_data = EmptyDict
    /\ e_jsonl_files = <<>> /\ e_futures = <<>>
    /\ e_total_alignment_score = 0 /\ e_total_weight = 0
    /\ e_total_pages_compared = {} /\ e_page_eval_data = <<>>
    /\ e_sample_idx = <<>> /\ e_worst_html = None /\ e_sample_html = None
    /\ e_result = NoResult

\* gold_data = load_gold_data(gold_data_path), and the totals are zeroed.
LoadGold ==
    /\ e_pc = "start"
    /\ LET g == load_gold_data(e_gold_path)
       IN  /\ e_gold_data' = g.gold_data
           /\ e_exc' = g.exc
           /\ e_pc' = IF g.exc = "none" THEN "gold_loaded" ELSE "raised"
    /\ UNCHANGED notEval
    /\ UNCHANGED <<e_gold_path, e_eval_path, e_review_size, e_jsonl_files,
                   e_futures, e_total_alignment_score, e_total_weight,
                   e_total_pages_compared, e_page_eval_data, e_sample_idx,
                   e_worst_html, e_sample_html, e_result>>

\* jsonl_files = list_jsonl_files(eval_data_path); ValueError when empty.
ListFiles ==
    /\ e_pc = "gold_loaded"
    /\ e_jsonl_files' = list_jsonl_files(e_eval_path)
    /\ IF no_files(e_jsonl_files')
       THEN e_pc' = "raised" /\ e_exc' = "ValueError"
       ELSE e_pc' = "listed" /\ e_exc' = e_exc
    /\ UNCHANGED notEval
    /\ UNCHANGED <<e_gold_path, e_eval_path, e_review_size, e_gold_data,
                   e_futures, e_total_alignment_score, e_total_weight,
                   e_total_pages_compared, e_page_eval_data, e_sample_idx,
                   e_worst_html, e_sample_html, e_result>>

\* futures = [executor.submit(process_jsonl_file, ...) for each file]
Submit ==
    /\ e_pc = "listed"
    /\ e_futures' = [i \in 1..Len(e_jsonl_files) |-> "pending"]
    /\ e_pc' = "collecting"
    /\ UNCHANGED notEval
    /\ UNCHANGED <<e_gold_path, e_eval_path, e_review_size, e_exc, e_gold_data,
                   e_jsonl_files, e_total_alignment_score, e_total_weight,
                   e_total_pages_compared, e_page_eval_data, e_sample_idx,
                   e_worst_html, e_sample_html, e_result>>

PageKey(pd) == pd.s3_path \o <<"-">> \o IntStr(pd.page)

\* The loop body with "=" in place of "+=" for the two totals.
Collect_LastWins(i) ==
    /\ e_pc = "collecting"
    /\ e_futures[i] = "pending"
    /\ LET r == process_jsonl_file(e_jsonl_files[i], e_gold_data)
       IN  IF r.exc # "none"
           THEN /\ e_pc' = "raised"
                /\ e_exc' = r.exc
                /\ UNCHANGED <<e_total_alignment_score, e_total_weight,
                               e_total_pages_compared, e_page_eval_data>>
           ELSE /\ e_total_alignment_score' = r.char_weighted_alignment_score
                /\ e_total_weight' = r.total_chars
                /\ e_total_pages_compared' =
                      e_total_pages_compared \cup
                      {r.page_data[j].key : j \in 1..Len(r.page_data)}
                /\ e_page_eval_data' =
                      e_page_eval_data \o
                      [j \in 1..Len(r.page_data) |-> r.page_data[j].pd]
                /\ UNCHANGED <<e_pc, e_exc>>
    /\ e_futures' = [e_futures EXCEPT ![i] = "done"]
    /\ UNCHANGED notEval
    /\ UNCHANGED <<e_gold_path, e_eval_path, e_review_size, e_gold_data,
                   e_jsonl_files, e_sample_idx, e_worst_html, e_sample_html,
                   e_result>>

\* One turn of "for future in as_completed(futures)": future i completes
\* next (in any order), future.result() re-raises the worker's exception,
\* otherwise its result is aggregated.
Collect(i) ==
    /\ e_pc = "collecting"
    /\ e_futures[i] = "pending"
    /\ LET r == process_jsonl_file(e_jsonl_files[i], e_gold_data)
       IN  IF r.exc # "none"
           THEN /\ e_pc' = "raised"
                /\ e_exc' = r.exc
                /\ UNCHANGED <<e_total_alignment_score, e_total_weight,
                               e_total_pages_compared, e_page_eval_data>>
           ELSE /\ e_total_alignment_score' =
                      e_total_alignment_score + r.char_weighted_alignment_score
                /\ e_total_weight' = e_total_weight + r.total_chars
                /\ e_total_pages_compared' =
                      e_total_pages_compared \cup
                      {r.page_data[j].key : j \in 1..Len(r.page_data)}
                /\ e_page_eval_data' =
                      e_page_eval_data \o
                      [j \in 1..Len(r.page_data) |-> r.page_data[j].pd]
                /\ UNCHANGED <<e_pc, e_exc>>
    /\ e_futures' = [e_futures EXCEPT ![i] = "done"]
    /\ UNCHANGED notEval
    /\ UNCHANGED <<e_gold_path, e_eval_path, e_review_size, e_gold_data,
                   e_jsonl_files, e_sample_idx, e_worst_html, e_sample_html,
                   e_result>>

\* The prints after the loop; "Mean alignment" divides by total_weight.
Report ==
    /\ e_pc = "collecting"
    /\ \A i \in 1..Len(e_futures) : e_futures[i] = "done"
    /\ IF e_total_weight = 0
       THEN e_pc' = "raised" /\ e_exc' = "ZeroDivisionError"
       ELSE e_pc' = "reported" /\ e_exc' = e_exc
    /\ UNCHANGED notEval
    /\ UNCHANGED <<e_gold_path, e_eval_path, e_review_size, e_gold_data,
                   e_jsonl_files, e_futures, e_total_alignment_score,
                   e_total_weight, e_total_pages_compared, e_page_eval_data,
                   e_sample_idx, e_worst_html, e_sample_html, e_result>>

\* page_eval_data.sort(...); create_review_html(page_eval_data[:size], "_worst")
WriteWorst ==
    /\ e_pc = "reported"
    /\ e_page_eval_data' = SortByAlignment(e_page_eval_data)
    /\ e_worst_html' = Prefix(e_page_eval_data', e_review_size)
    /\ e_pc' = "worst_written"
    /\ UNCHANGED notEval
    /\ UNCHANGED <<e_gold_path, e_eval_path, e_review_size, e_exc, e_gold_data,
                   e_jsonl_files, e_futures, e_total_alignment_score,
                   e_total_weight, e_total_pages_compared, e_sample_idx,
                   e_sample_html, e_result>>

\* random.sample raises ValueError when the sample is larger than the list.
SampleRaises ==
    /\ e_pc = "worst_written"
    /\ random_sample(Len(e_page_eval_data), e_review_size) = {}
    /\ e_pc' = "raised"
    /\ e_exc' = "ValueError"
    /\ UNCHANGED notEval
    /\ UNCHANGED <<e_gold_path, e_eval_path, e_review_size, e_gold_data,
                   e_jsonl_files, e_futures, e_total_alignment_score,
                   e_total_weight, e_total_pages_compared, e_page_eval_data,
                   e_sample_idx, e_worst_html, e_sample_html, e_result>>

\* page_eval_data = random.sample(page_eval_data, review_page_size);
\* create_review_html(page_eval_data, "_sample"); return score, page_eval_data.
\* e_page_eval_data keeps the sorted list the sample was drawn from; the
\* rebound local is e_result.pages.
SampleAndReturn ==
    /\ e_pc = "worst_written"
    /\ \E idx \in random_sample(Len(e_page_eval_data), e_review_size) :
          /\ e_sample_idx' = idx
          /\ e_sample_html' = [i \in 1..e_review_size |-> e_page_eval_data[idx[i]]]
          /\ e_result' =
                [score |-> [num |-> e_total_alignment_score, den |-> e_total_weight],
                 pages |-> e_sample_html']
    /\ e_pc' = "done"
    /\ UNCHANGED notEval
    /\ UNCHANGED <<e_gold_path, e_eval_path, e_review_size, e_exc, e_gold_data,
                   e_jsonl_files, e_futures, e_total_alignment_score,
                   e_total_weight, e_total_pages_compared, e_page_eval_data,
                   e_worst_html>>

NextEval ==
    \/ LoadGold
    \/ ListFiles
    \/ Submit
    \/ \E i \in 1..Len(e_futures) : Collect(i)
    \/ Report
    \/ WriteWorst
    \/ SampleRaises
    \/ SampleAndReturn

(***************************************************************************)
(* viewer2.py: parse_rules_file, get_model_outputs, generate_html.         *)
(***************************************************************************)
\* Bound: the number of distinct PDFs a rules file names.
MaxPdfs == 11

\* pdf_names = list(pdf_rules.keys())[:10]
FirstPdfs == 10

\* The name of the i-th PDF, as a string of characters: "d<i>.p"
PdfName(i) == <<"d">> \o IntStr(i) \o <<".", "p">>

\* pdf_name.replace('.', '-')
ReplaceDots(name) == [i \in 1..Len(name) |-> IF name[i] = "." THEN "-" ELSE name[i]]

\* A line of the rules file, by what json.loads makes of it: blank, not
\* JSON, a JSON scalar, an object without the 'pdf' key, an object with it.
RuleLine(name) == [kind |-> "rule", pdf |-> name]
NoiseLine(kind) == [kind |-> kind, pdf |-> <<>>]

NoiseKinds == {"blank", "notjson", "nopdf", "scalar"}

\* The rules files: n PDFs named in ascending or descending order, each
\* named once or a second time (in ascending order), with or without one
\* line of noise at the head and after the first rule.
RulesFile(n, desc, dup, noise) ==
    LET first == [i \in 1..n |-> RuleLine(PdfName(IF desc THEN n + 1 - i ELSE i))]
        again == IF dup THEN [i \in 1..n |-> RuleLine(PdfName(i))] ELSE <<>>
        rules == first \o again
    IN  IF noise = "none" THEN rules
        ELSE IF rules = <<>> THEN <<NoiseLine(noise)>>
        ELSE <<NoiseLine(noise), Head(rules), NoiseLine(noise)>> \o Tail(rules)

RulesFiles ==
    {RulesFile(n, desc, dup, noise) :
        n \in 0..MaxPdfs, desc \in BOOLEAN, dup \in BOOLEAN,
        noise \in NoiseKinds \cup {"none"}}

PdfsArgs ==
    {[given |-> FALSE, names |-> <<>>],
     [given |-> TRUE, names |-> <<>>],
     [given |-> TRUE, names |-> <<PdfName(2), PdfName(1)>>],
     [given |-> TRUE, names |-> <<PdfName(1), PdfName(1)>>],
     [given |-> TRUE, names |-> <<PdfName(0)>>]}

Failures ==
    {[chatgpt |-> {}, gemini |-> {}],
     [chatgpt |-> {}, gemini |-> {PdfName(1)}],
     [chatgpt |-> {PdfName(2)}, gemini |-> {}]}

ViewIdle ==
    /\ v_lines = <<>> /\ v_pdfs_arg = [given |-> FALSE, names |-> <<>>]
    /\ v_fail = [chatgpt |-> {}, gemini |-> {}]
    /\ v_pos = 0 /\ v_pdf_rules = <<>> /\ v_pdf_names = <<>> /\ v_html = <<>>
    /\ v_pc = "idle"

\* main() has parsed its arguments and opens the rules file.
ViewInit ==
    /\ v_lines \in RulesFiles
    /\ v_pdfs_arg \in PdfsArgs
    /\ v_fail \in Failures
    /\ v_pos = 0 /\ v_pdf_rules = <<>> /\ v_pdf_names = <<>> /\ v_html = <<>>
    /\ v_pc = "parse"

\* pdf_rules[rule['pdf']].append(rule) on the defaultdict(list)
AppendRule(pdf_rules, pdf) ==
    IF \E i \in 1..Len(pdf_rules) : pdf_rules[i].pdf = pdf
    THEN [i \in 1..Len(pdf_rules) |->
            IF pdf_rules[i].pdf = pdf
            THEN [pdf |-> pdf, rules |-> pdf_rules[i].rules + 1]
            ELSE pdf_rules[i]]
    ELSE Append(pdf_rules, [pdf |-> pdf, rules |-> 1])

\* One iteration of "for line in f" of parse_rules_file.
ParseLine ==
    /\ v_pc = "parse"
    /\ v_pos < Len(v_lines)
    /\ v_pos' = v_pos + 1
    /\ LET line == v_lines[v_pos + 1]
       IN  CASE line.kind = "rule" ->
                  v_pdf_rules' = AppendRule(v_pdf_rules, line.pdf) /\ v_pc' = v_pc
             [] line.kind = "scalar" ->
                  \* 'pdf' in rule raises TypeError, which is not caught
                  v_pdf_rules' = v_pdf_rules /\ v_pc' = "raised"
             [] OTHER ->
                  v_pdf_rules' = v_pdf_rules /\ v_pc' = v_pc
    /\ UNCHANGED <<v_lines, v_pdfs_arg, v_fail, v_pdf_names, v_html>>
    /\ UNCHANGED notView

\* The keys of pdf_rules, in insertion order.
Keys(pdf_rules) == [i \in 1..Len(pdf_rules) |-> pdf_rules[i].pdf]

\* "if pdfs_to_process: pdf_names = pdfs_to_process
\*  else: pdf_names = list(pdf_rules.keys())[:10]"
select_pdf_names_unlimited(pdf_rules, pdfs_to_process) ==
    IF pdfs_to_process.given /\ pdfs_to_process.names # <<>>
    THEN pdfs_to_process.names
    ELSE Keys(pdf_rules)

select_pdf_names(pdf_rules, pdfs_to_process) ==
    IF pdfs_to_process.given /\ pdfs_to_process.names # <<>>
    THEN pdfs_to_process.names
    ELSE SubSeq(Keys(pdf_rules), 1, Min2(FirstPdfs, Len(pdf_rules)))

\* parse_rules_file returns; generate_html selects the PDFs.
SelectPdfs ==
    /\ v_pc = "parse"
    /\ v_pos = Len(v_lines)
    /\ v_pdf_names' = select_pdf_names(v_pdf_rules, v_pdfs_arg)
    /\ v_pc' = "render"
    /\ UNCHANGED <<v_lines, v_pdfs_arg, v_fail, v_pos, v_pdf_rules, v_html>>
    /\ UNCHANGED notView

\* get_model_outputs: both outputs, or the error text twice when a runner
\* raises (run_chatgpt runs first).
get_model_outputs(pdf, fail) ==
    IF pdf \in fail.chatgpt
    THEN [chatgpt |-> <<"Error", "chatgpt">>, gemini |-> <<"Error", "chatgpt">>]
    ELSE IF pdf \in fail.gemini
    THEN [chatgpt |-> <<"Error", "gemini">>, gemini |-> <<"Error", "gemini">>]
    ELSE [chatgpt |-> <<"chatgpt", pdf>>, gemini |-> <<"gemini", pdf>>]

\* One iteration of "for pdf_name in pdf_names": a pdf-container is appended.
RenderContainer ==
    /\ v_pc = "render"
    /\ Len(v_html) < Len(v_pdf_names)
    /\ LET pdf_name == v_pdf_names[Len(v_html) + 1]
           out == get_model_outputs(pdf_name, v_fail)
       IN  v_html' = Append(v_html,
                [name |-> pdf_name, id |-> ReplaceDots(pdf_name),
                 chatgpt |-> out.chatgpt, gemini |-> out.gemini])
    /\ UNCHANGED <<v_lines, v_pdfs_arg, v_fail, v_pos, v_pdf_rules, v_pdf_names, v_pc>>
    /\ UNCHANGED notView

\* The loop is over: the script is appended and html is returned.
FinishHtml ==
    /\ v_pc = "render"
    /\ Len(v_html) = Len(v_pdf_names)
    /\ v_pc' = "done"
    /\ UNCHANGED <<v_lines, v_pdfs_arg, v_fail, v_pos, v_pdf_rules, v_pdf_names, v_html>>
    /\ UNCHANGED notView

NextView ==
    \/ ParseLine
    \/ SelectPdfs
    \/ RenderContainer
    \/ FinishHtml


(***************************************************************************)
(* The page generate_html writes, open in a browser: rateModel,            *)
(* toggleDifference, findDifferences and window.onload.                    *)
(***************************************************************************)
\* Bound: the calls of toggleDifference counted per panel and page load.
MaxToggles == 3

\* The selections main() may be run with; each run writes the page to the
\* same output file, which the browser then loads.
PageSelections ==
    {<<PdfName(1), PdfName(2)>>, <<PdfName(2), PdfName(3)>>}

\* The element ids of a page.
PageIds(page) == {ReplaceDots(page[i]) : i \in 1..Len(page)}

AllIds == UNION {PageIds(page) : page \in PageSelections}

\* The rating buttons of a container.
Ratings == {"chatgpt", "gemini", "both-good", "both-bad", "invalid"}

\* The ratings the user clicks in the model.
ClickedRatings == {"chatgpt", "both-good"}

\* rating.replace('-', ' ').toUpperCase()
RatingText(rating) ==
    CASE rating = "chatgpt" -> "CHATGPT"
      [] rating = "gemini" -> "GEMINI"
      [] rating = "both-good" -> "BOTH GOOD"
      [] rating = "both-bad" -> "BOTH BAD"
      [] rating = "invalid" -> "INVALID"

\* <span class="rating-indicator" id="rating-..."></span>
BlankIndicator == [textContent |-> "", className |-> <<"rating-indicator">>]

RatedIndicator(rating) ==
    [textContent |-> RatingText(rating), className |-> <<"rating-indicator", rating>>]

\* ratings[pdfId] = rating on an object: an existing property keeps its place.
SetProperty(obj, key, value) ==
    IF \E i \in 1..Len(obj) : obj[i][1] = key
    THEN [i \in 1..Len(obj) |-> IF obj[i][1] = key THEN <<key, value>> ELSE obj[i]]
    ELSE Append(obj, <<key, value>>)

HasProperty(obj, key) == \E i \in 1..Len(obj) : obj[i][1] = key

GetProperty(obj, key) ==
    LET i == CHOOSE j \in 1..Len(obj) : obj[j][1] = key IN obj[i][2]

\* JSON.stringify(ratings) and JSON.parse(savedRatings): the text lists the
\* members in property order, and parsing gives them back in that order.
JSON_stringify(obj) == [present |-> TRUE, json |-> obj]
JSON_parse(text) == text.json

\* localStorage.getItem gives null for a key never set.
NoItem == [present |-> FALSE, json |-> <<>>]

\* rateModel(pdfId, rating) on the page state st = [ratings, indicator,
\* storage, threw]: document.getElementById gives null for an id the page
\* does not hold, and setting textContent on null throws before the ratings
\* are stored.
rateModel(st, pdfId, rating) ==
    LET ratings == SetProperty(st.ratings, pdfId, rating)
    IN  IF pdfId \notin DOMAIN st.indicator
        THEN [st EXCEPT !.ratings = ratings, !.threw = TRUE]
        ELSE [st EXCEPT !.ratings = ratings,
                        !.indicator[pdfId] = RatedIndicator(rating),
                        !.storage = JSON_stringify(ratings)]

\* "for (const pdfId in parsedRatings) rateModel(pdfId, parsedRatings[pdfId])":
\* an exception ends the handler.
RECURSIVE RestoreRatings(_, _)
RestoreRatings(st, parsedRatings) ==
    IF parsedRatings = <<>> \/ st.threw THEN st
    ELSE RestoreRatings(rateModel(st, Head(parsedRatings)[1], Head(parsedRatings)[2]),
                        Tail(parsedRatings))

\* The model outputs a container shows, as sentences (what
\* split(/(?<=[.!?])\s+/) yields): two long sentences, a short one (at most
\* 10 characters), and a long one that reads "Loading differences...".
ChatgptSentences(id) ==
    CASE id = ReplaceDots(PdfName(1)) -> <<"Sentence one.", "Shrt.">>
      [] id = ReplaceDots(PdfName(2)) -> <<"Sentence one.", "Loading differences... soon.">>
      [] OTHER -> <<"Sentence two.">>

GeminiSentences(id) ==
    CASE id = ReplaceDots(PdfName(1)) -> <<"Sentence two.", "Sentence one.">>
      [] id = ReplaceDots(PdfName(2)) -> <<"Sentence one.">>
      [] OTHER -> <<"Sentence two.">>

Includes(sentences, sentence) == \E i \in 1..Len(sentences) : sentences[i] = sentence

\* The sentences of text1 longer than 10 characters that text2 does not include.
UniqueSentences(text1, text2) ==
    SelectSeq(text1, LAMBDA sentence : Len(sentence) > 10 /\ ~Includes(text2, sentence))

\* findDifferences(text1, text2)
findDifferences(text1, text2) ==
    [loading |-> FALSE,
     chatgpt_unique |-> UniqueSentences(text1, text2),
     gemini_unique |-> UniqueSentences(text2, text1)]

\* <h3>Differences</h3><p>Loading differences...</p>
LoadingContent == [loading |-> TRUE, chatgpt_unique |-> <<>>, gemini_unique |-> <<>>]

\* diffElement.textContent.includes("Loading differences...")
IncludesLoading(content) ==
    \/ content.loading
    \/ Includes(content.chatgpt_unique, "Loading differences... soon.")
    \/ Includes(content.gemini_unique, "Loading differences... soon.")

NoGiven == [id \in AllIds |-> None]

PageIdle ==
    /\ p_page = <<>> /\ p_ratings = <<>> /\ p_indicator = <<>>
    /\ p_storage = NoItem /\ p_display = <<>> /\ p_content = <<>>
    /\ p_pc = "idle" /\ p_given = NoGiven /\ p_calls = <<>>

\* The document as the browser builds it from the html, before onload.
FreshDocument(page) ==
    /\ p_page' = page
    /\ p_ratings' = <<>>
    /\ p_indicator' = [id \in PageIds(page) |-> BlankIndicator]
    /\ p_display' = [id \in PageIds(page) |-> ""]
    /\ p_content' = [id \in PageIds(page) |-> LoadingContent]
    /\ p_calls' = [id \in PageIds(page) |-> 0]
    /\ p_pc' = "loading"

\* The page is opened for the first time: nothing is stored yet.
PageInit ==
    /\ p_page \in PageSelections
    /\ p_ratings = <<>>
    /\ p_indicator = [id \in PageIds(p_page) |-> BlankIndicator]
    /\ p_display = [id \in PageIds(p_page) |-> ""]
    /\ p_content = [id \in PageIds(p_page) |-> LoadingContent]
    /\ p_storage = NoItem
    /\ p_pc = "loading"
    /\ p_given = NoGiven
    /\ p_calls = [id \in PageIds(p_page) |-> 0]

\* window.onload
OnLoad ==
    /\ p_pc = "loading"
    /\ LET st0 == [ratings |-> p_ratings, indicator |-> p_indicator,
                   storage |-> p_storage, threw |-> FALSE]
           st == IF ~p_storage.present THEN st0
                 ELSE RestoreRatings(st0, JSON_parse(p_storage))
       IN  /\ p_ratings' = st.ratings
           /\ p_indicator' = st.indicator
           /\ p_storage' = st.storage
    /\ p_pc' = "ready"
    /\ UNCHANGED <<p_page, p_display, p_content, p_given, p_calls>>
    /\ UNCHANGED notPage

\* The user clicks a rating button of the container id: rateModel(id, rating).
ClickRating(id, rating) ==
    /\ p_pc = "ready"
    /\ id \in PageIds(p_page)
    /\ LET st == rateModel([ratings |-> p_ratings, indicator |-> p_indicator,
                            storage |-> p_storage, threw |-> FALSE], id, rating)
       IN  /\ p_ratings' = st.ratings
           /\ p_indicator' = st.indicator
           /\ p_storage' = st.storage
    /\ p_given' = [p_given EXCEPT ![id] = rating]
    /\ UNCHANGED <<p_page, p_display, p_content, p_pc, p_calls>>
    /\ UNCHANGED notPage

\* toggleDifference without its else branch: the panel is only ever shown.
ToggleDifference_ShowOnly(id) ==
    /\ p_pc = "ready"
    /\ id \in PageIds(p_page)
    /\ p_calls[id] < MaxToggles
    /\ p_display' = [p_display EXCEPT ![id] = "block"]
    /\ p_content' =
          IF IncludesLoading(p_content[id])
          THEN [p_content EXCEPT
                  ![id] = findDifferences(ChatgptSentences(id), GeminiSentences(id))]
          ELSE p_content
    /\ p_calls' = [p_calls EXCEPT ![id] = @ + 1]
    /\ UNCHANGED <<p_page, p_ratings, p_indicator, p_storage, p_pc, p_given>>
    /\ UNCHANGED notPage

\* The user clicks "Show Differences" of the container id: toggleDifference(id).
ToggleDifference(id) ==
    /\ p_pc = "ready"
    /\ id \in PageIds(p_page)
    /\ p_calls[id] < MaxToggles
    /\ IF p_display[id] = "none" \/ p_display[id] = ""
       THEN /\ p_display' = [p_display EXCEPT ![id] = "block"]
            /\ p_content' =
                  IF IncludesLoading(p_content[id])
                  THEN [p_content EXCEPT
                          ![id] = findDifferences(ChatgptSentences(id), GeminiSentences(id))]
                  ELSE p_content
       ELSE /\ p_display' = [p_display EXCEPT ![id] = "none"]
            /\ p_content' = p_content
    /\ p_calls' = [p_calls EXCEPT ![id] = @ + 1]
    /\ UNCHANGED <<p_page, p_ratings, p_indicator, p_storage, p_pc, p_given>>
    /\ UNCHANGED notPage

\* The user reloads the page: the document and the script start afresh,
\* localStorage stays.
Reload ==
    /\ p_pc = "ready"
    /\ FreshDocument(p_page)
    /\ UNCHANGED <<p_storage, p_given>>
    /\ UNCHANGED notPage

\* main() is run with another selection and writes the page to the same
\* output file; the browser loads it.  localStorage stays.
Regenerate ==
    /\ p_pc = "ready"
    /\ \E page \in PageSelections \ {p_page} : FreshDocument(page)
    /\ UNCHANGED <<p_storage, p_given>>
    /\ UNCHANGED notPage

NextPage ==
    \/ OnLoad
    \/ \E id \in AllIds, rating \in ClickedRatings : ClickRating(id, rating)
    \/ \E id \in AllIds : ToggleDifference(id)
    \/ Reload
    \/ Regenerate


(***************************************************************************)
(* make_dataset and prepare_data_for_qwen2_training (pdelfin/train), whose *)
(* code is not among the sources: modelled from the specification ("turn   *)
(* PDF pages plus OCR responses into tokenized training examples ... with  *)
(* randomized prompt-length truncation") and from what                     *)
(* tests/test_dataprep.py builds and reads.                                *)
(***************************************************************************)
\* Bound: the anchor text length a source asks for (6000 in the tests), in
\* text pieces.
FullLen == 3

\* labels value of a masked position
MaskValue == -100

\* The tokenizer's vocabulary: one id per piece of text.
TokenId(piece) ==
    CASE piece = "<|im_start|>" -> 151644
      [] piece = "<|im_end|>" -> 151645
      [] piece = "<|vision_start|>" -> 151652
      [] piece = "<|vision_end|>" -> 151653
      [] piece = "<|image_pad|>" -> 151655
      [] piece = "\n" -> 198
      [] piece = "system" -> 8948
      [] piece = "user" -> 872
      [] piece = "assistant" -> 77091
      [] piece = "You are a helpful assistant." -> 2610
      [] piece = "Below is the image of one page of a document" -> 38214
      [] piece = "RAW_TEXT_START" -> 39960
      [] piece = "RAW_TEXT_END" -> 39961
      [] piece = "Page dimensions: 612.0x792.0" -> 2665
      [] piece = "t1" -> 1001
      [] piece = "t2" -> 1002
      [] piece = "t3" -> 1003
      [] piece = "t4" -> 1004
      [] piece = "r1" -> 2001
      [] piece = "r2" -> 2002

\* processor.tokenizer(text, add_special_tokens=False)["input_ids"]
Tokenize(text) == [i \in 1..Len(text) |-> TokenId(text[i])]

\* "<|im_end|>\n"
ImEnd == <<"<|im_end|>", "\n">>

\* The examples of the dataset: the text pieces of the page and the response.
Examples ==
    << [page_text |-> <<"t1", "t2">>, response |-> <<"r1", "r2">>],
       [page_text |-> <<"t1", "t2", "t3", "t4">>, response |-> <<"r2">>],
       [page_text |-> <<>>, response |-> <<>>],
       [page_text |-> <<"t3">>, response |-> <<"r1">>] >>

\* get_anchor_text(pdf, page, target_length): the page dimensions, then the
\* page text cut to target_length.
get_anchor_text(page_text, target_length) ==
    <<"Page dimensions: 612.0x792.0">>
        \o SubSeq(page_text, 1, Min2(target_length, Len(page_text)))

\* build_finetuning_prompt(base_text)
build_finetuning_prompt(base_text) ==
    <<"Below is the image of one page of a document", "\n", "RAW_TEXT_START", "\n">>
        \o base_text \o <<"\n", "RAW_TEXT_END">>

\* processor.apply_chat_template(messages, add_generation_prompt=True)
apply_chat_template(prompt) ==
    <<"<|im_start|>", "system", "\n", "You are a helpful assistant.", "<|im_end|>", "\n",
      "<|im_start|>", "user", "\n", "<|vision_start|>", "<|image_pad|>", "<|vision_end|>">>
        \o prompt
        \o <<"<|im_end|>", "\n", "<|im_start|>", "assistant", "\n">>

\* The lengths random.choice may pick: the listed ones, or the one given.
anchor_len_any(target) == 0..FullLen

anchor_len_choices(target) ==
    IF target.is_list THEN {target.values[i] : i \in 1..Len(target.values)}
    ELSE {target.values[1]}

\* prepare_data_for_qwen2_training(example, processor, ..., target_anchor_text_len)
\* with the anchor length already picked.
prepare_labels_unmasked(example, anchor_len) ==
    LET anchor_text == get_anchor_text(example.page_text, anchor_len)
        inputs == Tokenize(apply_chat_template(build_finetuning_prompt(anchor_text)))
        labels == Tokenize(example.response \o ImEnd)
    IN  [input_ids |-> inputs \o labels,
         labels |-> inputs \o labels]

prepare_data_for_qwen2_training(example, anchor_len) ==
    LET anchor_text == get_anchor_text(example.page_text, anchor_len)
        inputs == Tokenize(apply_chat_template(build_finetuning_prompt(anchor_text)))
        labels == Tokenize(example.response \o ImEnd)
    IN  [input_ids |-> inputs \o labels,
         labels |-> [i \in 1..Len(inputs) |-> MaskValue] \o labels]

\* What the test reads off an example: the tokens between RAW_TEXT_START
\* and RAW_TEXT_END of the prompt.
RawTextBlock(entry) ==
    LET start == CHOOSE i \in 1..Len(entry.input_ids) :
                    entry.input_ids[i] = TokenId("RAW_TEXT_START")
        end == CHOOSE i \in 1..Len(entry.input_ids) :
                    entry.input_ids[i] = TokenId("RAW_TEXT_END")
    IN  SubSeq(entry.input_ids, start + 1, end - 1)

Targets ==
    {[is_list |-> FALSE, values |-> <<FullLen>>],
     [is_list |-> TRUE, values |-> <<0, FullLen>>],
     [is_list |-> TRUE, values |-> <<0, 1, FullLen>>]}

NoExample == [input_ids |-> <<>>, labels |-> <<>>]

PrepIdle ==
    /\ d_target = [is_list |-> FALSE, values |-> <<0>>]
    /\ d_index = 0 /\ d_entry = NoExample /\ d_seen = <<>> /\ d_pc = "idle"

\* make_dataset(config, processor) has returned train_dataset.
PrepInit ==
    /\ d_target \in Targets
    /\ d_index = 0
    /\ d_entry = NoExample
    /\ d_seen = [i \in 1..Len(Examples) |-> {}]
    /\ d_pc = "ready"

\* train_dataset[i]: the transform runs anew on every access.
Access(i) ==
    /\ d_pc = "ready"
    /\ \E anchor_len \in anchor_len_choices(d_target) :
          d_entry' = prepare_data_for_qwen2_training(Examples[i], anchor_len)
    /\ d_index' = i
    /\ d_seen' = [d_seen EXCEPT ![i] = @ \cup {RawTextBlock(d_entry')}]
    /\ UNCHANGED <<d_target, d_pc>>
    /\ UNCHANGED notPrep

NextPrep == \E i \in 1..Len(Examples) : Access(i)


(***************************************************************************)
(* Claims about normalize_json_entry (SpecNorm).                           *)
(***************************************************************************)

\* n is a canonical non-negative decimal integer: digits only, no leading
\* zero except for "0" itself.
CanonicalDecimal(s) ==
    /\ Len(s) > 0
    /\ \A i \in 1..Len(s) : s[i] \in Digits
    /\ (Len(s) > 1 => s[1] # "0")

\* The positions k at which id reads "<path>-<n>" with n canonical.
SplitPoints(id) ==
    {k \in 1..Len(id) :
        id[k] = "-" /\ CanonicalDecimal(SubSeq(id, k + 1, Len(id)))}

WellFormedId(id) == SplitPoints(id) # {}

\* C2: for a record of either format whose custom_id is "<path>-<n>" with n a
\* canonical non-negative decimal integer, the key is never rejected, and the
\* entry normalize_json_entry returns has s3_path = <path> (all before the
\* last hyphen), pagenum = n, and a goldkey equal to the original custom_id.
C2_GoldkeyRoundTrip ==
    (n_pc # "input" /\ WellFormedId(n_data.custom_id)) =>
        /\ n_result.exc # "ValueError"
        /\ n_pc = "returned" =>
             \A k \in SplitPoints(n_data.custom_id) :
                /\ n_result.entry.s3_path = SubSeq(n_data.custom_id, 1, k - 1)
                /\ IntStr(n_result.entry.pagenum) =
                     SubSeq(n_data.custom_id, k + 1, Len(n_data.custom_id))
                /\ goldkey(n_result.entry) = n_data.custom_id

\* A returned entry whose path itself contains a hyphen and whose page
\* number has two digits.
C2_Witness ==
    /\ n_pc = "returned"
    /\ n_data.custom_id = <<"-", "-", "1", "0">>
    /\ n_result.entry.s3_path = <<"-">>
    /\ n_result.entry.pagenum = 10

\* C3: a returned entry's text is the natural_text field when the content is
\* structured JSON carrying natural_text, the raw content when the content
\* is not valid JSON; finish_reason is that of the same output/choice; a
\* Birr record with outputs = null gives text = finish_reason = None and
\* error = completion_error.
C3_TextAndFinishReason ==
    n_pc = "returned" =>
        /\ (~n_data.outputs_null /\ n_data.text = StructuredText) =>
                n_result.entry.text = "abcd"
        /\ (~n_data.outputs_null /\ n_data.text = StructuredNull) =>
                n_result.entry.text = None
        /\ (~n_data.outputs_null /\ n_data.text \in {PlainText, EmptyText}) =>
                n_result.entry.text = n_data.text
        /\ ~n_data.outputs_null =>
                n_result.entry.finish_reason = n_data.finish_reason
        /\ (n_data.fmt = "birr" /\ n_data.outputs_null) =>
                /\ n_result.entry.text = None
                /\ n_result.entry.finish_reason = None
                /\ n_result.entry.error = n_data.completion_error

\* A Birr record with structured content was normalized to its natural_text.
C3_Witness ==
    /\ n_pc = "returned"
    /\ n_data.fmt = "birr"
    /\ n_data.text = StructuredText
    /\ n_data.finish_reason = "length"
    /\ n_result.entry.text = "abcd"
    /\ n_result.entry.finish_reason = "length"

\* C4: for every record with a well-formed custom_id and every content string
\* normalize_json_entry returns a NormalizedEntry and does not raise.
C4_NeverRaises ==
    (n_pc # "input" /\ WellFormedId(n_data.custom_id)) => n_pc = "returned"

(***************************************************************************)
(* Claims about do_eval (SpecEval).                                        *)
(***************************************************************************)

\* Every line of every listed eval file, in listing order.
RECURSIVE AllLines(_)
AllLines(files) ==
    IF files = <<>> THEN <<>> ELSE Head(files).lines \o AllLines(Tail(files))

\* The key and text of an eval line, read off its custom_id and content.
LineEntry(line) == normalize_json_entry(line).entry

\* The eval lines whose gold key is present in the gold data.
ComparedLines(files, gold_data) ==
    SelectSeq(AllLines(files),
              LAMBDA line : goldkey(LineEntry(line)) \in DOMAIN gold_data)

RECURSIVE SumWeightedAlignment(_, _)
SumWeightedAlignment(lines, gold_data) ==
    IF lines = <<>> THEN 0
    ELSE LET gold_text == OrEmpty(gold_data[goldkey(LineEntry(Head(lines)))])
             eval_text == OrEmpty(LineEntry(Head(lines)).text)
         IN  compute(gold_text, eval_text) * Len(gold_text)
               + SumWeightedAlignment(Tail(lines), gold_data)

RECURSIVE SumGoldChars(_, _)
SumGoldChars(lines, gold_data) ==
    IF lines = <<>> THEN 0
    ELSE Len(OrEmpty(gold_data[goldkey(LineEntry(Head(lines)))]))
           + SumGoldChars(Tail(lines), gold_data)

C5_NoFilesValueError ==
    (e_pc \notin {"start", "gold_loaded"} /\ list_jsonl_files(e_eval_path) = <<>>) =>
        /\ e_pc = "raised"
        /\ e_exc = "ValueError"
        /\ e_futures = <<>>
        /\ e_worst_html = None
        /\ e_sample_html = None

\* The eval directory holds a file, but none with a valid ending.
C5_Witness ==
    /\ e_pc = "raised"
    /\ e_exc = "ValueError"
    /\ e_eval_path = <<OtherFile>>
    /\ e_jsonl_files = <<>>

\* C6: the page list do_eval returns (the one written as the _sample page)
\* has exactly review_page_size entries, each one of the aggregated page
\* records, drawn from pairwise distinct positions.
C6_SampleWithoutReplacement ==
    e_pc = "done" =>
        /\ Len(e_result.pages) = e_review_size
        /\ e_sample_html = e_result.pages
        /\ Len(e_sample_idx) = e_review_size
        /\ \A i \in 1..e_review_size :
              /\ e_sample_idx[i] \in 1..Len(e_page_eval_data)
              /\ e_result.pages[i] = e_page_eval_data[e_sample_idx[i]]
        /\ \A i, j \in 1..e_review_size :
              i # j => e_sample_idx[i] # e_sample_idx[j]

\* One page sampled out of two, and not the first.
C6_Witness ==
    /\ e_pc = "done"
    /\ e_review_size = 1
    /\ Len(e_page_eval_data) = 2
    /\ e_sample_idx = <<2>>
    /\ e_result.pages = <<e_page_eval_data[2]>>


\* An eval line is skippable when its eval text or its gold text is empty
\* (or None, which "or ''" turns into the empty text).
EmptyPage(line, gold_data) ==
    \/ OrEmpty(LineEntry(line).text) = ""
    \/ OrEmpty(gold_data[goldkey(LineEntry(line))]) = ""

\* The lines of a file that have a gold text and are not skippable.
UsablePages(jsonl_file, gold_data) ==
    SelectSeq(jsonl_file.lines,
              LAMBDA line : /\ goldkey(LineEntry(line)) \in DOMAIN gold_data
                            /\ ~EmptyPage(line, gold_data))

\* C11: in process_jsonl_file a page whose eval text or gold text is empty
\* (or None) is skipped: every record of page_data has both texts non-empty,
\* and total_pages, total_chars and the alignment totals count the usable
\* pages only.  Stated of the result of every worker whose future do_eval
\* has collected.
C11_EmptyPagesSkipped ==
    \A i \in 1..Len(e_futures) :
        e_futures[i] = "done" =>
            LET r == process_jsonl_file(e_jsonl_files[i], e_gold_data)
                usable == UsablePages(e_jsonl_files[i], e_gold_data)
            IN  r.exc = "none" =>
                    /\ \A j \in 1..Len(r.page_data) :
                          /\ r.page_data[j].pd.gold_text # ""
                          /\ r.page_data[j].pd.eval_text # ""
                    /\ r.total_pages = Len(usable)
                    /\ r.total_chars = SumGoldChars(usable, e_gold_data)
                    /\ r.char_weighted_alignment_score =
                          SumWeightedAlignment(usable, e_gold_data)
                    /\ \A j \in 1..Len(e_page_eval_data) :
                          /\ e_page_eval_data[j].gold_text # ""
                          /\ e_page_eval_data[j].eval_text # ""


\* The futures whose result do_eval has taken.
DoneFutures == {i \in 1..Len(e_futures) : e_futures[i] = "done"}

\* What the worker of file i returns.
FileResult(i) == process_jsonl_file(e_jsonl_files[i], e_gold_data)

Largest(S) == CHOOSE i \in S : \A j \in S : j <= i

RECURSIVE SumWeightedOf(_)
SumWeightedOf(S) ==
    IF S = {} THEN 0
    ELSE FileResult(Largest(S)).char_weighted_alignment_score
           + SumWeightedOf(S \ {Largest(S)})

RECURSIVE SumCharsOf(_)
SumCharsOf(S) ==
    IF S = {} THEN 0
    ELSE FileResult(Largest(S)).total_chars + SumCharsOf(S \ {Largest(S)})

KeysOf(S) ==
    UNION {{FileResult(i).page_data[j].key : j \in 1..Len(FileResult(i).page_data)} :
           i \in S}

\* The page records of the files of S, file after file in listing order.
RECURSIVE PagesOf(_)
PagesOf(S) ==
    IF S = {} THEN <<>>
    ELSE PagesOf(S \ {Largest(S)})
           \o [j \in 1..Len(FileResult(Largest(S)).page_data) |->
                 FileResult(Largest(S)).page_data[j].pd]

\* A sequence as a multiset: how often each element occurs.
BagOfSeq(seq) ==
    [x \in {seq[i] : i \in 1..Len(seq)} |->
        Cardinality({i \in 1..Len(seq) : seq[i] = x})]

RECURSIVE FirstAppearances(_, _)
FirstAppearances(lines, seen) ==
    IF lines = <<>> THEN seen
    ELSE LET l == Head(lines)
         IN  IF l.kind = "rule" /\ \A i \in 1..Len(seen) : seen[i] # l.pdf
             THEN FirstAppearances(Tail(lines), Append(seen, l.pdf))
             ELSE FirstAppearances(Tail(lines), seen)

\* The selection the claim describes.
ClaimedSelection ==
    IF v_pdfs_arg.given /\ Len(v_pdfs_arg.names) > 0
    THEN v_pdfs_arg.names
    ELSE LET names == FirstAppearances(v_lines, <<>>)
         IN  IF Len(names) < 10 THEN names ELSE SubSeq(names, 1, 10)

\* C7: the page holds exactly one pdf-container per selected PDF name, in
\* selection order, with the ChatGPT and the Gemini output of that PDF (the
\* error text in both when a runner raised); the selection is pdfs_to_process
\* when given and non-empty, otherwise the first 10 distinct names of the
\* rules file in order of first appearance.
C7_OneContainerPerSelectedPdf ==
    v_pc = "done" =>
        /\ Len(v_html) = Len(ClaimedSelection)
        /\ \A i \in 1..Len(v_html) :
              /\ v_html[i].name = ClaimedSelection[i]
              /\ IF v_html[i].name \in v_fail.chatgpt \cup v_fail.gemini
                 THEN /\ v_html[i].chatgpt[1] = "Error"
                      /\ v_html[i].gemini = v_html[i].chatgpt
                 ELSE /\ v_html[i].chatgpt = <<"chatgpt", v_html[i].name>>
                      /\ v_html[i].gemini = <<"gemini", v_html[i].name>>

\* A rules file naming 11 PDFs in descending order, each twice, and no
\* pdfs_to_process: the page holds the first ten, d11.p first.
C7_Witness ==
    /\ v_pc = "done"
    /\ ~v_pdfs_arg.given
    /\ Len(v_pdf_rules) = 11
    /\ v_pdf_rules[1].rules = 2
    /\ Len(v_html) = 10
    /\ v_html[1].name = PdfName(11)
    /\ v_html[10].name = PdfName(2)


(***************************************************************************)
(* Claims about the page's script (SpecPage).                              *)
(***************************************************************************)

\* C8: once window.onload has run, the in-memory ratings map and the rating
\* indicator of every PDF of the page that was given a rating hold the last
\* rating given to that PDF.
C8_RatingsRestored ==
    p_pc = "ready" =>
        \A id \in PageIds(p_page) :
            p_given[id] # None =>
                /\ HasProperty(p_ratings, id)
                /\ GetProperty(p_ratings, id) = p_given[id]
                /\ p_indicator[id] = RatedIndicator(p_given[id])


\* The panel of id is shown: .difference-content has display: none, so the
\* panel is hidden unless its own style says "block".
Shown(display, id) == display[id] = "block"

\* What findDifferences yields for the two outputs of the container id.
Differences(id) == findDifferences(ChatgptSentences(id), GeminiSentences(id))

\* The panels' parity and content, as a state predicate.
PanelsFollowCalls ==
    \A id \in PageIds(p_page) :
        /\ p_calls[id] = 0 => p_display[id] = "" /\ p_content[id] = LoadingContent
        /\ p_calls[id] % 2 = 1 <=> Shown(p_display, id)
        /\ (p_calls[id] > 0 /\ p_calls[id] % 2 = 0) => p_display[id] = "none"
        /\ p_calls[id] > 0 => p_content[id] = Differences(id)

\* A step is a call toggleDifference(id): the page stays, the count of id
\* goes up by one.
IsToggle(id) ==
    /\ p_page' = p_page
    /\ id \in PageIds(p_page)
    /\ p_calls' = [p_calls EXCEPT ![id] = @ + 1]

\* What one call toggleDifference(id) does.
ToggleEffect(id) ==
    /\ Shown(p_display', id) = ~Shown(p_display, id)
    /\ p_calls[id] > 0 => p_content'[id] = p_content[id]
    /\ p_calls[id] = 0 => p_content'[id] = Differences(id)
    /\ \A other \in PageIds(p_page) \ {id} :
          /\ p_display'[other] = p_display[other]
          /\ p_content'[other] = p_content[other]
    /\ p_ratings' = p_ratings
    /\ p_indicator' = p_indicator
    /\ p_storage' = p_storage

\* C13: each call toggleDifference(pdfId) flips that panel between hidden and
\* shown, starting from hidden (shown after an odd number of calls, hidden
\* after an even number); the differences are computed when the panel is
\* first shown and later calls leave its content as it is; no call changes
\* a rating or another PDF's panel.
C13_ToggleFlipsPanel ==
    /\ []PanelsFollowCalls
    /\ [][\A id \in AllIds : IsToggle(id) => ToggleEffect(id)]_vars

\* The panel of the second PDF after three calls: shown, holding the
\* differences (which themselves read "Loading differences..."), while the
\* first PDF has a rating and an untouched panel.
C13_Witness ==
    /\ p_pc = "ready"
    /\ p_page = <<PdfName(1), PdfName(2)>>
    /\ p_calls[ReplaceDots(PdfName(2))] = 3
    /\ Shown(p_display, ReplaceDots(PdfName(2)))
    /\ p_content[ReplaceDots(PdfName(2))] = Differences(ReplaceDots(PdfName(2)))
    /\ IncludesLoading(p_content[ReplaceDots(PdfName(2))])
    /\ p_calls[ReplaceDots(PdfName(1))] = 0
    /\ p_content[ReplaceDots(PdfName(1))] = LoadingContent
    /\ HasProperty(p_ratings, ReplaceDots(PdfName(1)))


(***************************************************************************)
(* Claims about the training examples (SpecPrep).                          *)
(***************************************************************************)

\* The positions of labels that are not masked.
Unmasked(labels) == {i \in 1..Len(labels) : labels[i] # -100}

EndsWith(seq, suffix) ==
    /\ Len(seq) >= Len(suffix)
    /\ SubSeq(seq, Len(seq) - Len(suffix) + 1, Len(seq)) = suffix

\* C9: in every training example labels is input_ids with a prefix masked:
\* at least 10 positions of -100, then at least one position, and from the
\* first unmasked position to the end labels equals input_ids; input_ids
\* and the unmasked labels end with the tokens of "<|im_end|>\n".
C9_LabelsMaskPrefix ==
    d_index # 0 =>
        LET input_ids == d_entry.input_ids
            labels == d_entry.labels
            im_end_token_ids == Tokenize(<<"<|im_end|>", "\n">>)
        IN  /\ Len(labels) = Len(input_ids)
            /\ Unmasked(labels) # {}
            /\ LET first == CHOOSE i \in Unmasked(labels) :
                               \A j \in Unmasked(labels) : i <= j
               IN  /\ first - 1 >= 10
                   /\ \A i \in 1..(first - 1) : labels[i] = -100
                   /\ \A i \in first..Len(labels) : labels[i] = input_ids[i]
                   /\ EndsWith(SubSeq(labels, first, Len(labels)), im_end_token_ids)
            /\ EndsWith(input_ids, im_end_token_ids)
            /\ EndsWith(SelectSeq(labels, LAMBDA t : t # -100), im_end_token_ids)

\* The first example, with its two response tokens and the end tokens
\* unmasked after a masked prompt.
C9_Witness ==
    /\ d_index = 1
    /\ ~d_target.is_list
    /\ d_entry.labels[1] = -100
    /\ Cardinality(Unmasked(d_entry.labels)) = 4
    /\ d_entry.labels[Len(d_entry.labels) - 3] = TokenId("r1")

\* The RAW_TEXT block of example i when the anchor text is cut to len.
BlockFor(i, len) ==
    Tokenize(<<"\n">> \o get_anchor_text(Examples[i].page_text, len) \o <<"\n">>)

\* The block that holds only the page dimensions.
DimensionsOnly == Tokenize(<<"\n", "Page dimensions: 612.0x792.0", "\n">>)

\* C10: with a list for target_anchor_text_len every access shows a block
\* cut to one of the listed lengths; with [0, FullLen] it is the block
\* holding only the page dimensions or the full-length one.
C10_AnchorLengthFromList ==
    d_target.is_list =>
        /\ \A i \in 1..Len(Examples) :
              d_seen[i] \subseteq
                 {BlockFor(i, d_target.values[k]) : k \in 1..Len(d_target.values)}
        /\ d_index # 0 => RawTextBlock(d_entry) \in d_seen[d_index]
        /\ d_target.values = <<0, FullLen>> =>
              \A i \in 1..Len(Examples) :
                 d_seen[i] \subseteq
                    {DimensionsOnly, BlockFor(i, FullLen)}

\* Accesses of the second example have shown both outcomes: the block with
\* only the page dimensions and the full-length block (cut to FullLen), the
\* last access differing from an earlier one of the same index.
C10_Witness ==
    /\ d_target.values = <<0, FullLen>>
    /\ d_index = 2
    /\ d_seen[2] = {DimensionsOnly, BlockFor(2, FullLen)}
    /\ RawTextBlock(d_entry) = DimensionsOnly
    /\ Len(BlockFor(2, FullLen)) = FullLen + 3


(***************************************************************************)
(* The specifications: one per script.                                     *)
(***************************************************************************)
InitNorm == NormInit /\ EvalIdle /\ ViewIdle /\ PageIdle /\ PrepIdle
NextNorm == Normalize
SpecNorm == InitNorm /\ [][NextNorm]_vars

InitEval == EvalInit /\ NormIdle /\ ViewIdle /\ PageIdle /\ PrepIdle
SpecEval == InitEval /\ [][NextEval]_vars

InitView == ViewInit /\ NormIdle /\ EvalIdle /\ PageIdle /\ PrepIdle
SpecView == InitView /\ [][NextView]_vars

InitPage == PageInit /\ NormIdle /\ EvalIdle /\ ViewIdle /\ PrepIdle
SpecPage == InitPage /\ [][NextPage]_vars

\* The page when main() is never run again with another selection.
NextOnePage ==
    \/ OnLoad
    \/ \E id \in AllIds, rating \in ClickedRatings : ClickRating(id, rating)
    \/ \E id \in AllIds : ToggleDifference(id)
    \/ Reload
SpecOnePage == InitPage /\ [][NextOnePage]_vars

InitPrep == PrepInit /\ NormIdle /\ EvalIdle /\ ViewIdle /\ PageIdle
SpecPrep == InitPrep /\ [][NextPrep]_vars

====
